---- MODULE Spec2Model ----
(***************************************************************************)
(* Model of the two units of the repository:                               *)
(*   - src/middleware.ts: the route guard (auth callback + config.matcher) *)
(*   - src/src/components/okr/CheckInModal.tsx: the check-in modal         *)
(* Strings that the code inspects character by character (URLs, paths)     *)
(* are sequences of one-character strings.                                 *)
(***************************************************************************)
EXTENDS Integers, Sequences, FiniteSets, TLC

VARIABLES
    req,        \* middleware: the incoming request (url parts, auth context)
    res,        \* middleware: what happened to the request
    isOpen,     \* CheckInModal prop
    objective,  \* CheckInModal prop: an Objective or NULL
    isSubmitting,            \* CheckInModal prop, owned by the update handler
    keyResults,              \* useForm state: CheckInFormData.keyResults
    aiSuggestions,           \* useState<string[]>
    isLoadingAiSuggestions,  \* useState(false)
    inFlight,   \* calls of getOkrImprovementSuggestionsAction not yet settled
    updated,    \* argument of the onUpdateObjective call made by this step
    reqStale,   \* history: the modal was closed or reset since the request began
    shownFrom,  \* history: the settled call aiSuggestions was stored from
    uncaught    \* an exception escaped handleGetAiSuggestions

guardVars == <<req, res>>
modalVars == <<isOpen, objective, isSubmitting, keyResults, aiSuggestions,
               isLoadingAiSuggestions, inFlight, updated, reqStale, shownFrom,
               uncaught>>
vars == <<req, res, isOpen, objective, isSubmitting, keyResults, aiSuggestions,
          isLoadingAiSuggestions, inFlight, updated, reqStale, shownFrom,
          uncaught>>

(***************************************************************************)
(* String helpers (JavaScript String.prototype semantics on char tuples).  *)
(***************************************************************************)

\* s.startsWith(p, at) with a 1-based position
StartsWithAt(s, p, at) ==
    /\ at + Len(p) - 1 <= Len(s)
    /\ \A i \in 1..Len(p) : s[at + i - 1] = p[i]

\* s.indexOf(p) as a 1-based position, 0 when p does not occur
IndexOf(s, p) ==
    LET hits == {i \in 1..(Len(s) + 1) : StartsWithAt(s, p, i)}
    IN  IF hits = {} THEN 0 ELSE CHOOSE i \in hits : \A j \in hits : i <= j

\* s.replace(p, r) with a string pattern: only the first occurrence is replaced
StringReplace(s, p, r) ==
    LET at == IndexOf(s, p)
    IN  IF at = 0 THEN s
        ELSE SubSeq(s, 1, at - 1) \o r \o SubSeq(s, at + Len(p), Len(s))

\* position of the first character of s, at or after `from`, that is in `stops`
\* (Len(s) + 1 when there is none)
FirstOf(s, stops, from) ==
    LET hits == {i \in from..Len(s) : s[i] \in stops}
    IN  IF hits = {} THEN Len(s) + 1 ELSE CHOOSE i \in hits : \A j \in hits : i <= j

\* position of the first character of s, at or after `from`, that is not "/"
SkipSlashes(s, from) ==
    LET hits == {i \in from..Len(s) : s[i] # "/"}
    IN  IF hits = {} THEN Len(s) + 1 ELSE CHOOSE i \in hits : \A j \in hits : i <= j

\* new URL(u) for an http(s) URL: scheme up to ":", any run of slashes skipped,
\* host up to the next "/" or "?", path up to "?" ("/" when empty)
ParseUrl(u) ==
    LET colon == FirstOf(u, {":"}, 1)
        hostAt == SkipSlashes(u, colon + 1)
        pathAt == FirstOf(u, {"/", "?"}, hostAt)
        queryAt == FirstOf(u, {"?"}, pathAt)
        path == SubSeq(u, pathAt, queryAt - 1)
    IN  [ scheme   |-> SubSeq(u, 1, colon - 1),
          host     |-> SubSeq(u, hostAt, pathAt - 1),
          pathname |-> IF path = <<>> THEN <<"/">> ELSE path,
          search   |-> SubSeq(u, queryAt, Len(u)) ]

\* req.url: the full URL string of the request
Href(r) == r.scheme \o <<":", "/", "/">> \o r.host \o r.pathname \o r.search

(***************************************************************************)
(* The requests the guard is tried on.                                     *)
(***************************************************************************)
Schemes == { <<"h","t","t","p">>, <<"h","t","t","p","s">> }

Hosts == { <<"a","p","p",".","i","o">>,
           <<"o","k","r","s",".","i","o">>,
           <<"d","a","s","h","b","o","a","r","d",".","i","o">> }

Paths == { <<"/">>,
           <<"/","l","o","g","i","n">>,
           <<"/","s","i","g","n","u","p">>,
           <<"/","d","a","s","h","b","o","a","r","d">>,
           <<"/","o","k","r","s">>,
           <<"/","o","k","r","s","/","a","p","i">>,
           <<"/","a","p","i">>,
           <<"/","a","p","i","/","o","k","r","s">>,
           <<"/","_","n","e","x","t","/","s","t","a","t","i","c","/","a">>,
           <<"/","_","n","e","x","t","/","i","m","a","g","e">>,
           <<"/","_","n","e","x","t","/","d","a","t","a">>,
           <<"/","f","a","v","i","c","o","n",".","i","c","o">> }

Searches == { <<>>, <<"?","a","=","1">>, <<"?","n","=","/","o","k","r","s">> }

Requests ==
    [ scheme : Schemes, host : Hosts, pathname : Paths, search : Searches,
      auth : BOOLEAN ]

LoginPath == <<"/","l","o","g","i","n">>

\* config.matcher: one pattern, a leading "/" followed by a group that opens
\* with a negative lookahead over api, _next/static, _next/image, favicon.ico,
\* login, signup and ^/?$ and then takes the rest of the path. The pattern is
\* anchored at both ends; the lookahead is tried right after the leading "/",
\* at 0-based offset 1.
\* the literal alternatives of the lookahead ("." of favicon.ico is a wildcard)
LookaheadLiterals ==
    { <<"a","p","i">>,
      <<"_","n","e","x","t","/","s","t","a","t","i","c">>,
      <<"_","n","e","x","t","/","i","m","a","g","e">>,
      <<"f","a","v","i","c","o","n",".","i","c","o">>,
      <<"l","o","g","i","n">>,
      <<"s","i","g","n","u","p">> }

\* a literal alternative matched at 1-based position `at`; "." matches any char
LiteralAt(s, p, at) ==
    /\ at + Len(p) - 1 <= Len(s)
    /\ \A i \in 1..Len(p) : p[i] = "." \/ s[at + i - 1] = p[i]

\* the alternative ^/?$ at 1-based position `at`: ^ holds only at the start of
\* the input, then an optional "/" and the end of the input
AnchoredRootAt(s, at) ==
    /\ at = 1
    /\ \/ Len(s) = 0
       \/ (Len(s) = 1 /\ s[1] = "/")

\* the lookahead (?!...) succeeds at `at` when no alternative matches there
NegativeLookahead(s, at) ==
    /\ \A p \in LookaheadLiterals : ~LiteralAt(s, p, at)
    /\ ~AnchoredRootAt(s, at)

\* whether the middleware runs for the path
MatcherMatches(path) ==
    /\ Len(path) >= 1
    /\ path[1] = "/"
    /\ NegativeLookahead(path, 2)

(***************************************************************************)
(* The auth callback, src/middleware.ts lines 5-10.                        *)
(***************************************************************************)
Pending == [kind |-> "pending", url |-> <<>>]

\* the path is excluded by config.matcher: the callback never runs
NotMatched ==
    /\ res = Pending
    /\ ~MatcherMatches(req.pathname)
    /\ res' = [kind |-> "bypass", url |-> <<>>]
    /\ UNCHANGED <<req, modalVars>>

\* req.auth present: the callback returns undefined, the request proceeds
Authorized ==
    /\ res = Pending
    /\ MatcherMatches(req.pathname)
    /\ req.auth
    /\ res' = [kind |-> "next", url |-> <<>>]
    /\ UNCHANGED <<req, modalVars>>

\* no req.auth: redirect to req.url.replace(req.nextUrl.pathname, '/login')
RedirectToLogin ==
    /\ res = Pending
    /\ MatcherMatches(req.pathname)
    /\ ~req.auth
    /\ res' = [kind |-> "redirect",
               url  |-> StringReplace(Href(req), req.pathname, LoginPath)]
    /\ UNCHANGED <<req, modalVars>>

(***************************************************************************)
(* CheckInModal: data.                                                     *)
(***************************************************************************)
\* JavaScript null: no objective, no call. A record, so that it compares with
\* the records it stands in for.
NULL == [null |-> TRUE]
\* An optional collection that is missing (undefined). A tuple, so that it
\* compares with the collections it stands in for; no item is named so.
ABSENT == <<"undefined">>

\* largest number of key results of an objective; their ids are 1..MaxKRs
MaxKRs == 2
\* longest list the suggestion service returns
MaxSuggestions == 2
\* cap on the calls in flight that the model follows
MaxInFlight == 2

KrIds == 1..MaxKRs

\* CONFIDENCE_LEVELS of @/lib/constants
CONFIDENCE_LEVELS == {"HIGH", "MEDIUM", "LOW"}

\* The fields of a key result other than its confidence level. The three
\* shapes cover optional collections that are missing, present and empty.
KeyResultOf(id, level) ==
    CASE id % 3 = 1 ->
           [ id |-> id, description |-> "kr", progress |-> 40,
             confidenceLevel |-> level,
             initiatives |-> << [id |-> "i1", tasks |-> ABSENT] >>,
             risks |-> ABSENT, assignees |-> ABSENT ]
      [] id % 3 = 2 ->
           [ id |-> id, description |-> "kr", progress |-> 100,
             confidenceLevel |-> level,
             initiatives |-> << [id |-> "i1", tasks |-> <<"t1">>],
                                [id |-> "i2", tasks |-> ABSENT] >>,
             risks |-> <<"r1">>, assignees |-> <<"m1">> ]
      [] OTHER ->
           [ id |-> id, description |-> "kr", progress |-> 0,
             confidenceLevel |-> level,
             initiatives |-> <<>>,
             risks |-> <<>>, assignees |-> <<>> ]

\* sequences of distinct key result ids
IdSeqs ==
    UNION { {s \in [1..n -> KrIds] : \A i, j \in 1..n : i # j => s[i] # s[j]}
            : n \in 0..MaxKRs }

\* the Objective values the parent may pass as the `objective` prop
Objectives ==
    UNION { { [ id |-> "o1", description |-> "objective",
                keyResults |-> [i \in 1..Len(s) |-> KeyResultOf(s[i], lv[i])] ]
              : lv \in [1..Len(s) -> CONFIDENCE_LEVELS] }
            : s \in IdSeqs }

\* the objectives whose key results all stand at the level HIGH
ObjectivesAtOneLevel ==
    { o \in Objectives :
        \A i \in 1..Len(o.keyResults) : o.keyResults[i].confidenceLevel = "HIGH" }

\* what getOkrImprovementSuggestionsAction may resolve to: a list of strings,
\* an empty list, or a result without suggestions
SuggestionTexts == {"s1", "s2"}
ServiceResults ==
    UNION { [1..n -> SuggestionTexts] : n \in 0..MaxSuggestions } \cup {ABSENT}

NoSuggestionsMessage == "no-suggestions"
ErrorMessage == "error"

(***************************************************************************)
(* CheckInModal: pure parts.                                               *)
(***************************************************************************)
\* lines 47-50: objective.keyResults.map(kr => ({id, confidenceLevel}))
initialKrs(o) ==
    [i \in 1..Len(o.keyResults) |->
        [ id |-> o.keyResults[i].id,
          confidenceLevel |-> o.keyResults[i].confidenceLevel ]]

\* find that takes the first element whatever its id
FindIndexIgnoringId(arr, id) == IF Len(arr) = 0 THEN 0 ELSE 1

\* Array.prototype.find by id: the index of the first match, 0 for undefined
FindIndexById(arr, id) ==
    LET hits == {i \in 1..Len(arr) : arr[i].id = id}
    IN  IF hits = {} THEN 0 ELSE CHOOSE i \in hits : \A j \in hits : i <= j

\* x || 0 for a number x
OrZero(x) == IF x = 0 THEN 0 ELSE x

\* a missing collection passed on as it is
OrEmptyKeepsMissing(x) == x

\* x || [] for a collection x that may be missing
OrEmpty(x) == IF x = ABSENT THEN <<>> ELSE x

\* lines 59-72: updatedObjectiveData
processCheckIn(o, data) ==
    [ o EXCEPT !.keyResults =
        [i \in 1..Len(o.keyResults) |->
            LET originalKr == o.keyResults[i]
                found == FindIndexById(data, originalKr.id)
            IN  [ originalKr EXCEPT
                    !.progress = OrZero(originalKr.progress),
                    !.confidenceLevel =
                        IF found # 0 THEN data[found].confidenceLevel
                        ELSE originalKr.confidenceLevel,
                    !.initiatives =
                        [j \in 1..Len(originalKr.initiatives) |->
                            [ originalKr.initiatives[j] EXCEPT
                                !.tasks = OrEmpty(originalKr.initiatives[j].tasks) ]],
                    !.risks = OrEmpty(originalKr.risks),
                    !.assignees = OrEmpty(originalKr.assignees) ]] ]

\* an empty list stored as it is, without the fallback string
StoredOnSuccessWithoutFallback(result) ==
    IF result = ABSENT THEN << NoSuggestionsMessage >> ELSE result

\* the result dropped when the modal was closed or reset since the call began
StoredUnlessStale(result) ==
    IF reqStale THEN aiSuggestions
    ELSE IF result # ABSENT /\ Len(result) > 0 THEN result
    ELSE << NoSuggestionsMessage >>

\* lines 94-100: what is stored for a resolved call
StoredOnSuccess(result) ==
    IF result # ABSENT /\ Len(result) > 0 THEN result
    ELSE << NoSuggestionsMessage >>

\* lines 103-104: what is stored for a rejected call
StoredOnFailure == << ErrorMessage >>

\* the form initialized only while it is still empty
EffectAppliesWhenFormEmpty(o, open) == o # NULL /\ open /\ keyResults = <<>>

\* the form initialized only when the modal opens, not for another objective
EffectAppliesOnOpenOnly(o, open) == o # NULL /\ open /\ ~isOpen

\* line 46: the effect's condition
EffectApplies(o, open) == o # NULL /\ open

\* line 126 and the Dialog: the form row of entry i is rendered
RowRendered(i) ==
    /\ isOpen
    /\ objective # NULL
    /\ i \in 1..Len(keyResults)
    /\ FindIndexById(objective.keyResults, keyResults[i].id) # 0

\* a submit button that ignores the loading flag
CanSubmitWhileLoading ==
    /\ isOpen
    /\ objective # NULL
    /\ ~isSubmitting

\* line 184: the submit button is shown and not disabled
CanSubmit ==
    /\ isOpen
    /\ objective # NULL
    /\ ~(isSubmitting \/ isLoadingAiSuggestions)

\* a suggestion button that ignores the loading flag
CanRequestWhileLoading ==
    /\ isOpen
    /\ objective # NULL
    /\ ~isSubmitting

\* line 188: the suggestion button is shown and not disabled
CanRequest ==
    /\ isOpen
    /\ objective # NULL
    /\ ~(isLoadingAiSuggestions \/ isSubmitting)

\* line 182: the close button is shown and not disabled
CanClose ==
    /\ isOpen
    /\ objective # NULL
    /\ ~(isSubmitting \/ isLoadingAiSuggestions)

(***************************************************************************)
(* CheckInModal: steps.  A change of the props is taken together with the  *)
(* effect of lines 45-54 that React runs for it.                           *)
(***************************************************************************)
\* lines 45-54 for the props (o, open) that the step renders with
RunEffect(o, open) ==
    IF EffectApplies(o, open)
    THEN /\ keyResults' = initialKrs(o)
         /\ aiSuggestions' = <<>>
         /\ shownFrom' = NULL
         /\ reqStale' = (inFlight > 0)
    ELSE /\ UNCHANGED <<keyResults, aiSuggestions, shownFrom>>
         /\ reqStale' = (reqStale \/ (inFlight > 0 /\ ~open))

\* the parent opens the modal
OpenModal ==
    /\ ~isOpen
    /\ isOpen' = TRUE
    /\ RunEffect(objective, TRUE)
    /\ updated' = NULL
    /\ UNCHANGED <<req, res, objective, isSubmitting, isLoadingAiSuggestions, inFlight,
                   uncaught>>

\* line 112: the dialog asks to close (escape, overlay), onClose()
DismissDialog ==
    /\ isOpen
    /\ isOpen' = FALSE
    /\ RunEffect(objective, FALSE)
    /\ updated' = NULL
    /\ UNCHANGED <<req, res, objective, isSubmitting, isLoadingAiSuggestions, inFlight,
                   uncaught>>

\* lines 181-183: the close button
CloseButton ==
    /\ CanClose
    /\ isOpen' = FALSE
    /\ RunEffect(objective, FALSE)
    /\ updated' = NULL
    /\ UNCHANGED <<req, res, objective, isSubmitting, isLoadingAiSuggestions, inFlight,
                   uncaught>>

\* the parent passes another objective (or none)
SetObjective(o) ==
    /\ objective' = o
    /\ RunEffect(o, isOpen)
    /\ updated' = NULL
    /\ UNCHANGED <<req, res, isOpen, isSubmitting, isLoadingAiSuggestions, inFlight,
                   uncaught>>

\* lines 140-159: the Select of row i reports a level
SetConfidence(i, level) ==
    /\ RowRendered(i)
    /\ keyResults' = [keyResults EXCEPT ![i].confidenceLevel = level]
    /\ updated' = NULL
    /\ UNCHANGED <<req, res, isOpen, objective, isSubmitting, aiSuggestions,
                   isLoadingAiSuggestions, inFlight, reqStale, shownFrom,
                   uncaught>>

\* lines 121, 58-74: the form is submitted; the handler may report it pending
Submit(pending) ==
    /\ CanSubmit
    /\ updated' = processCheckIn(objective, keyResults)
    /\ isSubmitting' = pending
    /\ UNCHANGED <<req, res, isOpen, objective, keyResults, aiSuggestions,
                   isLoadingAiSuggestions, inFlight, reqStale, shownFrom,
                   uncaught>>

\* the update handler is done
SubmissionSettles ==
    /\ isSubmitting
    /\ isSubmitting' = FALSE
    /\ updated' = NULL
    /\ UNCHANGED <<req, res, isOpen, objective, keyResults, aiSuggestions,
                   isLoadingAiSuggestions, inFlight, reqStale, shownFrom,
                   uncaught>>

\* lines 76-92: handleGetAiSuggestions up to the await
RequestSuggestions ==
    /\ CanRequest
    /\ inFlight < MaxInFlight
    /\ isLoadingAiSuggestions' = TRUE
    /\ aiSuggestions' = <<>>
    /\ inFlight' = inFlight + 1
    /\ reqStale' = FALSE
    /\ shownFrom' = NULL
    /\ updated' = NULL
    /\ UNCHANGED <<req, res, isOpen, objective, isSubmitting, keyResults, uncaught>>

\* lines 92-100, 106-108: the call resolves with `result`
CallResolves(result) ==
    /\ inFlight > 0
    /\ aiSuggestions' = StoredOnSuccess(result)
    /\ isLoadingAiSuggestions' = FALSE
    /\ inFlight' = inFlight - 1
    /\ shownFrom' = [ok |-> TRUE, result |-> result, stale |-> reqStale]
    /\ updated' = NULL
    /\ UNCHANGED <<req, res, isOpen, objective, isSubmitting, keyResults, reqStale,
                   uncaught>>

\* lines 101-108: the call rejects
CallRejects ==
    /\ inFlight > 0
    /\ aiSuggestions' = StoredOnFailure
    /\ isLoadingAiSuggestions' = FALSE
    /\ inFlight' = inFlight - 1
    /\ shownFrom' = [ok |-> FALSE, result |-> ABSENT, stale |-> reqStale]
    /\ uncaught' = FALSE
    /\ updated' = NULL
    /\ UNCHANGED <<req, res, isOpen, objective, isSubmitting, keyResults, reqStale>>

ModalInit ==
    /\ isOpen = FALSE
    /\ objective = NULL
    /\ isSubmitting = FALSE
    /\ keyResults = <<>>
    /\ aiSuggestions = <<>>
    /\ isLoadingAiSuggestions = FALSE
    /\ inFlight = 0
    /\ updated = NULL
    /\ reqStale = FALSE
    /\ shownFrom = NULL
    /\ uncaught = FALSE

Init ==
    /\ req = NULL
    /\ res = NULL
    /\ ModalInit

\* The whole modal. The objectives the parent passes are the ones whose key
\* results all stand at the first level; the form takes every level.
Next ==
    \/ OpenModal
    \/ DismissDialog
    \/ CloseButton
    \/ \E o \in ObjectivesAtOneLevel \cup {NULL} : SetObjective(o)
    \/ \E i \in 1..MaxKRs, level \in CONFIDENCE_LEVELS : SetConfidence(i, level)
    \/ \E pending \in BOOLEAN : Submit(pending)
    \/ SubmissionSettles
    \/ RequestSuggestions
    \/ \E result \in ServiceResults : CallResolves(result)
    \/ CallRejects

Spec == Init /\ [][Next]_vars

\* The form alone (open, close, objective, confidence, submit), over every
\* objective of the bounds.
FormNext ==
    \/ OpenModal
    \/ DismissDialog
    \/ CloseButton
    \/ \E o \in Objectives \cup {NULL} : SetObjective(o)
    \/ \E i \in 1..MaxKRs, level \in CONFIDENCE_LEVELS : SetConfidence(i, level)
    \/ \E pending \in BOOLEAN : Submit(pending)
    \/ SubmissionSettles

SpecForm == Init /\ [][FormNext]_vars

GuardInit ==
    /\ req \in Requests
    /\ res = Pending
    /\ ModalInit

GuardNext ==
    \/ NotMatched
    \/ Authorized
    \/ RedirectToLogin

SpecGuard == GuardInit /\ [][GuardNext]_vars

(***************************************************************************)
(* Route guard claims (SpecGuard).                                         *)
(***************************************************************************)
\* the exclusion set the comment of config.matcher lists: paths starting with
\* /api, /_next/static, /_next/image, /favicon.ico, /login, /signup, and the
\* landing page /
IntendedExcluded(path) ==
    \/ path = <<"/">>
    \/ \E p \in LookaheadLiterals : LiteralAt(path, <<"/">> \o p, 1)

\* C1: every request for a guarded path that reaches the guard without an
\* auth context is redirected to a URL whose path is /login and whose scheme
\* and host are those of the original request URL.
RedirectTargetIsLogin ==
    (res.kind = "redirect" /\ ~IntendedExcluded(req.pathname)) =>
        LET target == ParseUrl(res.url)
        IN  /\ target.pathname = LoginPath
            /\ target.scheme = req.scheme
            /\ target.host = req.host

\* C2: the guard is invoked for a path if and only if the path is outside the
\* intended exclusion set; requests for /login and for / proceed without the
\* guard whatever the auth context.
GuardInvokedIffNotExcluded ==
    res.kind # "pending" =>
        ((res.kind = "bypass") <=> IntendedExcluded(req.pathname))

(***************************************************************************)
(* Check-in modal claims.                                                  *)
(***************************************************************************)
HasObjective == objective # NULL

\* the form holds one entry per key result of o, in order, with the key
\* result's id and confidence level
FormMirrors(form, o) ==
    /\ Len(form) = Len(o.keyResults)
    /\ \A i \in 1..Len(form) :
        /\ form[i].id = o.keyResults[i].id
        /\ form[i].confidenceLevel = o.keyResults[i].confidenceLevel

\* C3: whenever the modal becomes open with a non-null objective (first open,
\* reopen, or another objective while open), the form becomes exactly one
\* entry per key result, in key-result order, carrying its id and its current
\* confidence level; nothing of an earlier session's edits survives.
OpenInitializesForm ==
    [][ ( /\ isOpen'
          /\ objective' # NULL
          /\ (~isOpen \/ objective' # objective) )
        => FormMirrors(keyResults', objective') ]_vars

\* C3 witness: the modal is open on an objective of two key results with
\* different levels and the form mirrors it
OpenedOnTwoKeyResults ==
    /\ isOpen
    /\ HasObjective
    /\ Len(objective.keyResults) = 2
    /\ objective.keyResults[1].confidenceLevel # objective.keyResults[2].confidenceLevel
    /\ FormMirrors(keyResults, objective)

\* an optional collection with a missing one replaced by the empty one
Defaulted(c) == IF c = ABSENT THEN <<>> ELSE c

\* o with every missing tasks, risks and assignees collection made empty and
\* nothing else changed
Normalized(o) ==
    [ id |-> o.id, description |-> o.description,
      keyResults |->
        [i \in 1..Len(o.keyResults) |->
            [ id |-> o.keyResults[i].id,
              description |-> o.keyResults[i].description,
              progress |-> o.keyResults[i].progress,
              confidenceLevel |-> o.keyResults[i].confidenceLevel,
              initiatives |->
                [j \in 1..Len(o.keyResults[i].initiatives) |->
                    [ id |-> o.keyResults[i].initiatives[j].id,
                      tasks |-> Defaulted(o.keyResults[i].initiatives[j].tasks) ]],
              risks |-> Defaulted(o.keyResults[i].risks),
              assignees |-> Defaulted(o.keyResults[i].assignees) ]] ]

\* every collection of every key result of o is present
CompleteShape(o) ==
    \A i \in 1..Len(o.keyResults) :
        /\ o.keyResults[i].risks # ABSENT
        /\ o.keyResults[i].assignees # ABSENT
        /\ \A j \in 1..Len(o.keyResults[i].initiatives) :
            o.keyResults[i].initiatives[j].tasks # ABSENT

\* C4: a submit with no edit hands the update handler the objective itself,
\* equal in every field, except that missing tasks, risks and assignees
\* collections are empty ones; the output of any submit has a complete shape.
SubmitWithoutEditsIsNormalizedInput ==
    updated # NULL =>
        /\ CompleteShape(updated)
        /\ FormMirrors(keyResults, objective) => updated = Normalized(objective)

\* C4 witness: an unedited form was submitted for an objective of two key
\* results, one of which lacks its optional collections
SubmittedUneditedWithMissingFields ==
    /\ updated # NULL
    /\ FormMirrors(keyResults, objective)
    /\ Len(objective.keyResults) = 2
    /\ ~CompleteShape(objective)

\* the form is the initial one of o except that entry k stands at level
FormEditedAt(form, o, k, level) ==
    /\ Len(form) = Len(o.keyResults)
    /\ k \in 1..Len(form)
    /\ \A i \in 1..Len(form) :
        /\ form[i].id = o.keyResults[i].id
        /\ form[i].confidenceLevel =
             IF i = k THEN level ELSE o.keyResults[i].confidenceLevel

\* C5: after open(O), setConfidence(K.id, L) and submit(), the objective
\* handed to the update handler has K at level L, every other key result at
\* its level in O, and the key results of O in number and order.
SubmitAfterOneEditChangesOnlyIt ==
    updated # NULL =>
        \A k \in 1..MaxKRs, level \in CONFIDENCE_LEVELS :
            FormEditedAt(keyResults, objective, k, level) =>
                /\ Len(updated.keyResults) = Len(objective.keyResults)
                /\ \A i \in 1..Len(updated.keyResults) :
                    /\ updated.keyResults[i].id = objective.keyResults[i].id
                    /\ updated.keyResults[i].confidenceLevel =
                         IF i = k THEN level
                         ELSE objective.keyResults[i].confidenceLevel

\* C5 witness: a form of two entries was submitted with the second entry
\* edited and the first one not
SubmittedWithSecondEdited ==
    /\ updated # NULL
    /\ Len(objective.keyResults) = 2
    /\ Len(keyResults) = 2
    /\ keyResults[1].confidenceLevel = objective.keyResults[1].confidenceLevel
    /\ keyResults[2].confidenceLevel # objective.keyResults[2].confidenceLevel
    /\ keyResults[2].confidenceLevel # keyResults[1].confidenceLevel

\* C6: when the suggestion call completes, the stored list is the returned
\* strings in the returned order for a non-empty result, the one
\* "no suggestions" string for an empty or missing one, the one error string
\* for a failure, and the failure does not leave the controller.
SettledCallIsStored ==
    /\ ~uncaught
    /\ shownFrom # NULL =>
        /\ (shownFrom.ok /\ shownFrom.result # ABSENT /\ shownFrom.result # <<>>)
              => aiSuggestions = shownFrom.result
        /\ (shownFrom.ok /\ (shownFrom.result = ABSENT \/ shownFrom.result = <<>>))
              => aiSuggestions = << NoSuggestionsMessage >>
        /\ ~shownFrom.ok => aiSuggestions = << ErrorMessage >>

\* C6 witness: a call resolved with two different strings and they are stored
StoredTwoSuggestions ==
    /\ shownFrom # NULL
    /\ shownFrom.ok
    /\ shownFrom.result = <<"s2", "s1">>
    /\ aiSuggestions = <<"s2", "s1">>

\* C7: the result of a call that was in flight while the modal was closed or
\* re-opened is still stored when it arrives: nothing cancels the call.
StaleResultIsStored ==
    (shownFrom # NULL /\ shownFrom.stale) =>
        /\ aiSuggestions # <<>>
        /\ ~isLoadingAiSuggestions

\* C7 witness: the open modal shows suggestions of a call that was issued
\* before the form was last initialized
ShowsSuggestionsOfEarlierSession ==
    /\ isOpen
    /\ HasObjective
    /\ shownFrom # NULL
    /\ shownFrom.stale
    /\ aiSuggestions # <<>>

FormIdsAreKeyResults ==
    /\ (isOpen /\ HasObjective) =>
          \A i \in 1..Len(keyResults) :
              Cardinality({ j \in 1..Len(objective.keyResults) :
                              objective.keyResults[j].id = keyResults[i].id }) = 1
    /\ HasObjective =>
          \A j \in 1..Len(objective.keyResults) :
              (\A i \in 1..Len(keyResults) :
                    keyResults[i].id # objective.keyResults[j].id)
              => processCheckIn(objective, keyResults).keyResults[j].confidenceLevel
                   = objective.keyResults[j].confidenceLevel

\* C9 witness: the modal is open on two key results with an edited form while
\* a suggestion call is in flight
EditedFormWhileCallInFlight ==
    /\ isOpen
    /\ HasObjective
    /\ Len(keyResults) = 2
    /\ keyResults[2].confidenceLevel # objective.keyResults[2].confidenceLevel
    /\ inFlight = 1

\* C10: the loading flag is true exactly while a suggestion call is in
\* flight, the list is empty from the start of the call until it settles, the
\* flag is false again once it has settled, and at most one call is in flight.
LoadingTracksTheCall ==
    /\ inFlight <= 1
    /\ isLoadingAiSuggestions <=> (inFlight = 1)
    /\ isLoadingAiSuggestions => aiSuggestions = <<>>

\* C10 witness: a call has failed, its message is stored and the flag is back
\* to false
FailedCallLeftFlagFalse ==
    /\ shownFrom # NULL
    /\ ~shownFrom.ok
    /\ inFlight = 0
    /\ ~isLoadingAiSuggestions
    /\ isOpen

====
